---- MODULE Spec2Model ----
(***************************************************************************)
(* rosbag-rx: the playback orchestrator (RosbagManager), the chunk cache   *)
(* (ChunkInfoManager) and the time primitives (timeUtil), as a state       *)
(* machine.  One action per public method, timer tick and I/O callback.    *)
(*                                                                         *)
(* Units.  A bag time is the record [sec, nsec] of the source.  A seconds  *)
(* offset (the `sec: number` argument of addSecToTime, wall-clock elapsed  *)
(* time, options.prefetch) is carried in whole milliseconds, which is      *)
(* exact for every offset the orchestrator computes in this model.         *)
(***************************************************************************)
EXTENDS Integers, Sequences, FiniteSets, Bags

(***************************************************************************)
(* Bounds of the model                                                     *)
(***************************************************************************)
\* chunk reads pending at once (in flight or buffered in a mergeMap), over
\* all open subscriptions of _prefetchChunks
MaxPendingReads == 3
\* wall-clock milliseconds a play() subscription may run before it is paused
MaxElapsedMs == 12000

(***************************************************************************)
(* Program constants                                                       *)
(***************************************************************************)
MiB == 1024 * 1024
\* chunk-info-manager.ts:29  _maxCacheBytes = 50 * 1024 * 1024
maxCacheBytes == 50 * 1024 * 1024
\* bag-inspector.model.ts:220  mergeMap(..., 2)
PrefetchConcurrency == 2
\* bag-inspector.model.ts:81 and :143  the 0.033 s tick window, in ms
TickWindowMs == 33
\* utils/bag-format-constants.ts  HEADER_PADDING
HEADER_PADDING == 4096
\* timeUtil.ts:20  1e9
NanoPerSec == 1000000000
NanoPerMs == NanoPerSec \div 1000

(***************************************************************************)
(* Time primitives (utils/timeUtil.ts)                                     *)
(***************************************************************************)
T(s, n) == [sec |-> s, nsec |-> n]

\* JavaScript's % : the remainder takes the sign of the dividend
JsRem(a, b) == IF a >= 0 THEN a % b ELSE -((-a) % b)

\* Math.floor(a / b) for b > 0
FloorDiv(a, b) == a \div b

compareTime(a, b) ==
  IF a.sec - b.sec # 0 THEN a.sec - b.sec ELSE a.nsec - b.nsec

isLessThan(a, b) == compareTime(a, b) < 0

\* lines 21-26 of addSecToTime, totalNano being computed
addNano(time, ms, totalNano) ==
  [sec  |-> time.sec + FloorDiv(ms, 1000) + FloorDiv(totalNano, NanoPerSec),
   nsec |-> JsRem(totalNano, NanoPerSec)]

\* addSecToTime(time, sec) with sec = ms / 1000:
\*   sec % 1 is JsRem(ms, 1000) / 1000, Math.floor(sec) is FloorDiv(ms, 1000)
addSecToTime(time, ms) ==
  addNano(time, ms, time.nsec + JsRem(ms, 1000) * NanoPerMs)

\* time.sec + time.nsec / 1e9 (the tick's newTimeSec), in milliseconds
TimeSecMs(t) == t.sec * 1000 + FloorDiv(t.nsec, NanoPerMs)

(***************************************************************************)
(* Sequence helpers                                                        *)
(***************************************************************************)
Range(s) == {s[i] : i \in 1..Len(s)}

RECURSIVE InsertSortedBeforeTies(_, _, _)
\* an insert that puts index x before the indices whose key compares equal
\* (a sort that is not stable)
InsertSortedBeforeTies(perm, x, keys) ==
  IF perm = <<>> THEN <<x>>
  ELSE IF compareTime(keys[perm[Len(perm)]], keys[x]) < 0 THEN Append(perm, x)
  ELSE Append(InsertSortedBeforeTies(SubSeq(perm, 1, Len(perm) - 1), x, keys),
              perm[Len(perm)])

RECURSIVE InsertSorted(_, _, _)
\* index x placed after every index whose key does not compare greater than
\* key[x]: a stable insert.  perm is a sequence of indices into keys.
InsertSorted(perm, x, keys) ==
  IF perm = <<>> THEN <<x>>
  ELSE IF compareTime(keys[perm[Len(perm)]], keys[x]) <= 0 THEN Append(perm, x)
  ELSE Append(InsertSorted(SubSeq(perm, 1, Len(perm) - 1), x, keys), perm[Len(perm)])

RECURSIVE SortPerm(_, _)
\* the order Array.prototype.sort((a, b) => compareTime(key(a), key(b))) puts
\* the first n elements in (stable since ES2019)
SortPerm(keys, n) ==
  IF n = 0 THEN <<>> ELSE InsertSorted(SortPerm(keys, n - 1), n, keys)

\* s rearranged by the permutation perm
ApplyPerm(s, perm) == [i \in 1..Len(s) |-> s[perm[i]]]

\* s sorted by the times keys[i] of its elements
SortByTime(s, keys) == ApplyPerm(s, SortPerm(keys, Len(s)))

\* the last element of a non-empty array
Last(s) == s[Len(s)]

(***************************************************************************)
(* The bag files offered to loadFile.  A file is its size, its connection  *)
(* ids and its chunk-info records in the order they stand in the index     *)
(* region; each chunk carries its message pointers (conn, received time)   *)
(* in index-data order.  defs gives, for each connection, the messageType  *)
(* and the messageDefinition of its connection record.                     *)
(***************************************************************************)
Ptr(c, t) == [conn |-> c, time |-> t]

RawChunk(pos, st, en, ptrs) ==
  [chunkPosition |-> pos, startTime |-> st, endTime |-> en, index |-> ptrs]

\* the connection record of a connection: its type and definition
Conn(type, def) == [messageType |-> type, messageDefinition |-> def]

\* three chunks of 30, 25 and 25 MiB, twelve seconds in all; the last chunk
\* starts before the second ends; the index lists the messages of a chunk by
\* connection, not by time
FileA ==
  [size  |-> HEADER_PADDING + 80 * MiB,
   conns |-> {0, 1},
   defs  |-> [c \in {0, 1} |-> Conn("pose", "a")],
   chunks |-> <<
     RawChunk(HEADER_PADDING, T(0, 0), T(3, 900000000),
              <<Ptr(0, T(2, 500000000)), Ptr(1, T(0, 0))>>),
     RawChunk(HEADER_PADDING + 30 * MiB, T(4, 0), T(7, 990000000),
              <<Ptr(0, T(5, 480000000)), Ptr(0, T(7, 990000000)),
                Ptr(1, T(4, 500000000))>>),
     RawChunk(HEADER_PADDING + 55 * MiB, T(7, 980000000), T(12, 0),
              <<Ptr(0, T(12, 0)), Ptr(1, T(8, 0)), Ptr(1, T(7, 980000000))>>) >>]

\* one chunk larger than the cache budget (60 MiB); its second message is on
\* a connection the index region does not list; its connection has the type
\* name of FileA's with another definition
FileB ==
  [size  |-> HEADER_PADDING + 60 * MiB,
   conns |-> {0},
   defs  |-> [c \in {0} |-> Conn("pose", "b")],
   chunks |-> <<
     RawChunk(HEADER_PADDING, T(1, 0), T(6, 500000000),
              <<Ptr(0, T(1, 0)), Ptr(7, T(2, 250000000))>>) >>]

Files == <<FileA, FileB>>
FileIds == 1..Len(Files)
\* no file (BehaviorSubject<File | null>(null), BehaviorSubject<IBagMetadata | null>(null))
NoFile == 0

(***************************************************************************)
(* BagInspector._extractFileMetadata$: the chunk index of a file           *)
(***************************************************************************)
\* .map((chunk, i) => ({...chunk, nextChunkPosition:
\*        chunksInfo[i + 1]?.chunkPosition || file.size}))
linkChunks(raw, size) ==
  [i \in 1..Len(raw) |->
    [chunkPosition |-> raw[i].chunkPosition,
     startTime |-> raw[i].startTime,
     endTime   |-> raw[i].endTime,
     index     |-> raw[i].index,
     nextChunkPosition |->
       IF i < Len(raw) /\ raw[i + 1].chunkPosition # 0
       THEN raw[i + 1].chunkPosition ELSE size]]

\* the sort keys of .sort((a, b) => compareTime(a.startTime, b.startTime))
startTimes(chunks) == [i \in 1..Len(chunks) |-> chunks[i].startTime]

\* .map((chunk, idx) => ({...chunk, idx}))
indexChunks(sorted) ==
  [i \in 1..Len(sorted) |->
    [idx |-> i - 1,
     chunkPosition |-> sorted[i].chunkPosition,
     startTime |-> sorted[i].startTime,
     endTime   |-> sorted[i].endTime,
     index     |-> sorted[i].index,
     nextChunkPosition |-> sorted[i].nextChunkPosition]]

\* chunksInfo of the metadata _extractFileMetadata$ publishes for a file:
\* next link in file order, stable sort by startTime, then idx
parseChunks(file) ==
  indexChunks(SortByTime(linkChunks(file.chunks, file.size), startTimes(file.chunks)))

\* the metadata returned (lines 185-190), connections left out
publishedMetadata(chunksInfo) ==
  [startTime |-> chunksInfo[1].startTime,
   endTime   |-> Last(chunksInfo).endTime,
   chunksInfo |-> chunksInfo]

extractFileMetadata(file) == publishedMetadata(parseChunks(file))

\* the metadata of each file offered
Metadata == [f \in FileIds |-> parseChunks(Files[f])]

chunksInfoOf(f) == Metadata[f]

metaStartTime(f) == chunksInfoOf(f)[1].startTime
metaEndTime(f) == Last(chunksInfoOf(f)).endTime

\* the chunk info with the given idx in file f's metadata
ChunkAt(f, idx) == chunksInfoOf(f)[idx + 1]

\* readChunk$ line 67: chunkInfo.nextChunkPosition - chunkInfo.chunkPosition
chunkBytes(chunk) == chunk.nextChunkPosition - chunk.chunkPosition

chunkSize(f, idx) == chunkBytes(ChunkAt(f, idx))

(***************************************************************************)
(* ChunkInfoManager._processChunkBuffer: the decoded messages of a chunk   *)
(***************************************************************************)
\* the sort keys of the messages: their recievedTime
pointerTimes(ptrs) == [i \in 1..Len(ptrs) |-> ptrs[i].time]

\* the messages of a chunk record: sorted by recievedTime; a message whose
\* conn is not in the connections map is skipped
decodeChunk(ptrs, known) ==
  SelectSeq(SortByTime(ptrs, pointerTimes(ptrs)), LAMBDA p : p.conn \in known)

\* the messages kept for chunk idx of metadata m when its byte range is read
\* from file b.  The bytes of another file at these offsets are no chunk
\* record: shallowRecordRead finds no '=' and the result is [].
processChunkBuffer(m, idx, b, conns) ==
  IF b # m THEN <<>> ELSE decodeChunk(ChunkAt(m, idx).index, Files[conns].conns)

(***************************************************************************)
(* MessageReaders (message-reader.ts).  The buffer of a message is a       *)
(* sequence of values, one per primitive written; the reader's offset      *)
(* counts the values read.  Objects live in a heap, so that `this.result`  *)
(* is a reference as in the source: heap[id] is the object's properties in *)
(* insertion order.                                                        *)
(***************************************************************************)
\* the keys of StdTypeReader.parsingMethods (lines 10-93)
StdTypes ==
  {"string", "bool", "int8", "uint8", "int16", "uint16", "int32", "uint32", "float32",
   "float64", "int64", "uint64", "time", "duration", "json", "byte", "char"}

\* IMsgFormat; arrayLength 0 and constantValue "" stand for undefined (both
\* are falsy in the tests of lines 129 and 134)
Format(key, keyType, isArray, arrayLength, constantValue, nestedKeys) ==
  [key |-> key, keyType |-> keyType, isArray |-> isArray, arrayLength |-> arrayLength,
   constantValue |-> constantValue, nestedKeys |-> nestedKeys]

\* a field that is neither an array nor a constant
Field(key, keyType) == Format(key, keyType, FALSE, 0, "", <<>>)

\* decoded values: a primitive, a constant, an array of values, a reference
\* to an object of the heap
Value(kind, v) == [kind |-> kind, value |-> v]

\* a MessageReaders instance as constructed (lines 102-105), before a reader
\* exists: no parser memoized, no schema registered
NewReaders ==
  [parsers |-> {}, schemas |-> {}, heap |-> <<>>, result |-> 0, msg |-> 0,
   offset |-> 0, out |-> Value("undefined", 0), failed |-> FALSE]

\* a parsing method of StdTypeReader: read one value at the offset; a read
\* past the end of the buffer throws a RangeError; json reads nothing
readStd(d, keyType, buf) ==
  IF keyType = "json" THEN [d EXCEPT !.out = Value("undefined", 0)]
  ELSE IF d.offset >= Len(buf) THEN [d EXCEPT !.failed = TRUE]
  ELSE [d EXCEPT !.out = Value("std", buf[d.offset + 1]), !.offset = d.offset + 1]

\* msgTypesParsers.has(keyType)
hasParser(d, keyType) == \E q \in d.parsers : q.keyType = keyType

\* the formatFields the parser memoized for keyType was created with
parserFields(d, keyType) == (CHOOSE q \in d.parsers : q.keyType = keyType).fields

\* _createParser(format), lines 107-123: memoize a parser over format.nestedKeys
\* unless one is memoized for format.keyType
createParser(d, format) ==
  IF hasParser(d, format.keyType) THEN d
  ELSE [d EXCEPT !.parsers = d.parsers \cup
                   {[keyType |-> format.keyType, fields |-> format.nestedKeys]}]

\* obj[key] = value on an object: a present key keeps its place
putProperty(obj, key, value) ==
  IF \E i \in 1..Len(obj) : obj[i].key = key
  THEN [i \in 1..Len(obj) |-> IF obj[i].key = key THEN [key |-> key, value |-> value]
                                ELSE obj[i]]
  ELSE Append(obj, [key |-> key, value |-> value])

\* target[key] = <the value d returned>, target being the object the
\* left-hand side named before the right-hand side was evaluated
setProperty(d, target, key) ==
  IF d.failed THEN d
  ELSE [d EXCEPT !.heap[target] = putProperty(d.heap[target], key, d.out)]

\* this.result = {} (line 114)
newResult(d) == [d EXCEPT !.heap = Append(d.heap, <<>>), !.result = Len(d.heap) + 1]

RECURSIVE parserLoop(_, _, _, _)
RECURSIVE arrayLoop(_, _, _, _, _)
RECURSIVE parseField(_, _, _)

\* the parser memoized for keyType, called on the reader (lines 113-120)
runParser(d, keyType, buf) == parserLoop(newResult(d), parserFields(d, keyType), 1, buf)

\* lines 115-119: this.result[field.key] = this.parseField(reader, field) for
\* each field, then return this.result.  this.result is read anew in every
\* iteration and at the return.
parserLoop(d, fields, i, buf) ==
  IF d.failed THEN d
  ELSE IF i > Len(fields) THEN [d EXCEPT !.out = Value("object", d.result)]
  ELSE parserLoop(setProperty(parseField(d, fields[i], buf), d.result, fields[i].key),
                  fields, i + 1, buf)

\* lines 147-151 (and 137-142): a primitive, or the memoized parser of the
\* type, created from the field itself on a miss
parseOne(d, field, buf) ==
  IF field.keyType \in StdTypes THEN readStd(d, field.keyType, buf)
  ELSE runParser(createParser(d, field), field.keyType, buf)

\* result[j] = ... for the next j (lines 136-143)
arrayNext(d, field, n, acc, buf) == arrayLoop(d, field, n, Append(acc, d.out), buf)

arrayLoop(d, field, n, acc, buf) ==
  IF d.failed THEN d
  ELSE IF Len(acc) >= n THEN [d EXCEPT !.out = Value("array", acc)]
  ELSE arrayNext(parseOne(d, field, buf), field, n, acc, buf)

\* the array once parsingMethods.uint32() returned its length in d.out
arrayOfLength(d, field, buf) ==
  IF d.failed THEN d ELSE arrayLoop(d, field, d.out.value, <<>>, buf)

\* parseField(reader, field), lines 125-152
parseField(d, field, buf) ==
  IF field.constantValue # "" THEN [d EXCEPT !.out = Value("const", field.constantValue)]
  ELSE IF field.isArray
       THEN IF field.arrayLength # 0
            THEN arrayLoop(d, field, field.arrayLength, <<>>, buf)
            ELSE arrayOfLength(readStd(d, "uint32", buf), field, buf)
       ELSE parseOne(d, field, buf)

RECURSIVE registerTypes(_, _)
\* lines 157-161: a parser for each of schema.MSGSTypes that has none yet
registerTypes(d, types) ==
  IF types = <<>> THEN d ELSE registerTypes(createParser(d, Head(types)), Tail(types))

\* lines 156-163
registerSchema(d, msgType, schema) ==
  IF msgType \in d.schemas THEN d
  ELSE [registerTypes(d, schema.MSGSTypes) EXCEPT !.schemas = d.schemas \cup {msgType}]

\* line 155 and 165: a new reader at offset 0, this.msg = {}
newMsg(d) ==
  [d EXCEPT !.heap = <<<<>>>>, !.msg = 1, !.offset = 0, !.failed = FALSE]

RECURSIVE msgLoop(_, _, _, _)
\* lines 166-171: this.msg[format.key] = this.parseField(reader, format)
msgLoop(d, keys, i, buf) ==
  IF d.failed THEN d
  ELSE IF i > Len(keys) THEN [d EXCEPT !.out = Value("object", d.msg)]
  ELSE msgLoop(setProperty(parseField(d, keys[i], buf), d.msg, keys[i].key),
               keys, i + 1, buf)

\* readMsg(msgType, schema, buffer), lines 154-172
readMsg(d, msgType, schema, buf) ==
  msgLoop(newMsg(registerSchema(d, msgType, schema)), schema.topLevelKeys, 1, buf)

RECURSIVE plain(_, _)
\* the value v with every reference replaced by the object it refers to
plain(heap, v) ==
  IF v.kind = "object"
  THEN Value("object", [i \in 1..Len(heap[v.value]) |->
                         [key |-> heap[v.value][i].key,
                          value |-> plain(heap, heap[v.value][i].value)]])
  ELSE IF v.kind = "array"
  THEN Value("array", [i \in 1..Len(v.value) |-> plain(heap, v.value[i])])
  ELSE v

\* rosMessages.push({..., data: parsed}) of message number k (lines 166-170)
pushMessage(rosMessages, k, d) ==
  IF d.failed THEN rosMessages
  ELSE Append(rosMessages, [source |-> k, data |-> plain(d.heap, d.out)])

RECURSIVE decodeMessages(_, _, _, _)
\* the next message after readMsg returned or threw for message k
decodeNext(d, msgs, k, rosMessages) ==
  decodeMessages(d, msgs, k + 1, pushMessage(rosMessages, k, d))

\* the loop of _processChunkBuffer over the messages of a chunk (lines
\* 139-177), each with the schema of its type: a throw of readMsg is caught
\* and the message left out (lines 171-176)
decodeMessages(d, msgs, k, rosMessages) ==
  IF k > Len(msgs) THEN rosMessages
  ELSE decodeNext(readMsg(d, msgs[k].schema.msgType, msgs[k].schema, msgs[k].buffer),
                  msgs, k, rosMessages)

\* the message types _msgSchemas holds a schema for
SchemaTypes(schemas) == {s.messageType : s \in schemas}

RECURSIVE learnSchemas(_, _, _)
\* lines 151-157 over the messages decoded: the schema of a message type is
\* parsed from the definition of the first connection decoded with that type
\* and kept in _msgSchemas from then on
learnSchemas(msgs, schemas, defs) ==
  IF msgs = <<>> THEN schemas
  ELSE IF defs[Head(msgs).conn].messageType \in SchemaTypes(schemas)
       THEN learnSchemas(Tail(msgs), schemas, defs)
       ELSE learnSchemas(Tail(msgs), schemas \cup {defs[Head(msgs).conn]}, defs)

\* _msgSchemas after _processChunkBuffer decoded chunk idx of metadata m
schemasAfter(schemas, m, idx, b, conns) ==
  learnSchemas(processChunkBuffer(m, idx, b, conns), schemas, Files[conns].defs)

(***************************************************************************)
(* State                                                                   *)
(***************************************************************************)
VARIABLES
  bagFile,            \* ChunkInfoManager._bagFile (a file id, NoFile before any load)
  connections,        \* ChunkInfoManager._connections: the file whose map was passed last
  chunkCache,         \* ChunkInfoManager._chunkCache, in Map insertion order
  currentCacheBytes,  \* ChunkInfoManager._currentCacheBytes
  msgSchemas,         \* ChunkInfoManager._msgSchemas: the (type, definition) parsed
  inspectorFile,      \* BagInspector: the file whose header/index read is pending
  inspectorAlive,     \* the constructor's subscription to bagMetadata$ is open
  bagMetadata,        \* RosbagManager._bagMetadata$.value (the file it was read from)
  currentBagTime,     \* RosbagManager._currentBagTime$.value: <<>> is null, else <<time>>
  isPlaying,          \* RosbagManager._isPlaying$.value; the tick timer runs iff TRUE
  options,            \* RosbagManager._options$.value
  clock,              \* the closure of play(): anchor, elapsed wall time, last prefetch
  timers,             \* the number of open subscriptions to _playbackInterval$
  prefetches,         \* the open subscriptions of _prefetchChunks, a bag of mergeMap states
  seekAlive,          \* the constructor's subscription to _seek$ is open
  destroyed,          \* destroyInstance() was called
  onMessages,         \* the batches the last step emitted on _onMessages
  lastCall,           \* the last method call or callback, and what it did
  callArgs,           \* a library function called on its own: the function and its arguments
  callResult          \* what that call returned (NoCall before it returns)

\* the state of a RosbagManager and the objects it owns
managerVars == <<bagFile, connections, chunkCache, currentCacheBytes, msgSchemas,
                 inspectorFile, inspectorAlive, bagMetadata, currentBagTime, isPlaying,
                 options, clock, timers, prefetches, seekAlive, destroyed, onMessages,
                 lastCall>>

\* a direct call of a library function, outside any manager
callVars == <<callArgs, callResult>>

vars == <<managerVars, callVars>>

(***************************************************************************)
(* Inputs                                                                  *)
(***************************************************************************)
\* the times offered to seek()
SeekTimes == {T(5, 500000000), T(8, 10000000)}
\* wall-clock delays between timer callbacks, in ms (interval(33) fires no
\* earlier than every 33 ms; a busy or throttled event loop fires later)
TickDelaysMs == {4000}
\* the partial options offered to updateOptions()
OptionUpdates ==
  { [f \in {"loop"} |-> FALSE] }

\* bag-inspector.model.ts:47-51; prefetch in seconds
DefaultOptions == [prefetch |-> 10, playbackSpeed |-> 1, loop |-> TRUE]

\* { ...this._options$.value, ...options }
MergeOptions(cur, upd) ==
  [k \in DOMAIN cur |-> IF k \in DOMAIN upd THEN upd[k] ELSE cur[k]]

(***************************************************************************)
(* ChunkInfoManager: the cache                                             *)
(***************************************************************************)
CacheKeys(cache) == {cache[i].idx : i \in 1..Len(cache)}

\* hasChunk(idx): this._chunkCache.has(idx)
hasChunk(cache, idx) == idx \in CacheKeys(cache)

\* getCachedChunk(idx): this._chunkCache.get(idx)?.messages
getCachedChunk(cache, idx) ==
  (CHOOSE e \in Range(cache) : e.idx = idx).messages

\* Map.prototype.set: a present key keeps its place, a new key goes last
cacheSet(cache, entry) ==
  IF hasChunk(cache, entry.idx)
  THEN [i \in 1..Len(cache) |-> IF cache[i].idx = entry.idx THEN entry ELSE cache[i]]
  ELSE Append(cache, entry)

RECURSIVE cleanupCacheNewestFirst(_, _, _)
\* a _cleanupCache that drops the last key of the Map instead of the first
cleanupCacheNewestFirst(cache, bytes, evicted) ==
  IF bytes > maxCacheBytes /\ Len(cache) > 0
  THEN cleanupCacheNewestFirst(SubSeq(cache, 1, Len(cache) - 1),
                               bytes - cache[Len(cache)].size,
                               Append(evicted, cache[Len(cache)].idx))
  ELSE [cache |-> cache, bytes |-> bytes, evicted |-> evicted]

RECURSIVE cleanupCache(_, _, _)
\* _cleanupCache: drop the first key of the Map while over budget
cleanupCache(cache, bytes, evicted) ==
  IF bytes > maxCacheBytes /\ Len(cache) > 0
  THEN cleanupCache(Tail(cache), bytes - Head(cache).size, Append(evicted, Head(cache).idx))
  ELSE [cache |-> cache, bytes |-> bytes, evicted |-> evicted]

\* an onload that runs _cleanupCache before the insertion instead of after it
onloadEvictFirst(cache, bytes, m, idx, b, conns) ==
  LET chunkSz == chunkSize(m, idx)
      entry == [idx |-> idx, messages |-> processChunkBuffer(m, idx, b, conns),
                size |-> chunkSz, meta |-> m]
      r == cleanupCache(cache, bytes, <<>>)
  IN  [cache |-> cacheSet(r.cache, entry), bytes |-> r.bytes + chunkSz,
       evicted |-> r.evicted]

\* the cache entry of lines 65-72 (idx is its key; meta records whose chunk
\* table the read used)
cacheEntry(m, idx, b, conns) ==
  [idx |-> idx, messages |-> processChunkBuffer(m, idx, b, conns),
   size |-> chunkSize(m, idx), meta |-> m]

\* lines 69-74: insert, account, evict
insertEntry(cache, bytes, entry) ==
  cleanupCache(cacheSet(cache, entry), bytes + entry.size, <<>>)

\* reader.onload of readChunk$ (lines 63-74): decode, insert, account, evict
onload(cache, bytes, m, idx, b, conns) ==
  insertEntry(cache, bytes, cacheEntry(m, idx, b, conns))

(***************************************************************************)
(* RosbagManager._prefetchChunks and the mergeMap(..., 2) it subscribes    *)
(***************************************************************************)
\* validEndTime: the earlier of the two times (line 199-200)
earlierOf(prefetchEndTime, endTime) ==
  IF compareTime(prefetchEndTime, endTime) > 0 THEN endTime ELSE prefetchEndTime

\* chunksInfo.filter(chunk => chunk.endTime >= start && chunk.startTime <= end)
chunksInWindow(info, start, end) ==
  SelectSeq(info, LAMBDA c : /\ compareTime(c.endTime, start) >= 0
                             /\ compareTime(c.startTime, end) <= 0)

idxsOf(chunks) == [i \in 1..Len(chunks) |-> chunks[i].idx]

\* relevantChunks of _prefetchChunks(startTime) on metadata m (lines 194-207)
relevantChunks(m, startTime, prefetchSec) ==
  idxsOf(chunksInWindow(chunksInfoOf(m), startTime,
                        earlierOf(addSecToTime(startTime, prefetchSec * 1000),
                                  metaEndTime(m))))

RECURSIVE mergeMapDrain(_, _)
\* mergeMap: while a slot is free, take the next buffered chunk and subscribe
\* readChunk$ for it; a chunk that is cached by then completes at once
\* (readChunk$ lines 51-53) and frees its slot again.  `called` records that
\* readChunk$ ran (it stores the connections map, line 50).
mergeMapDrain(p, cache) ==
  IF p.queue = <<>> \/ Cardinality(p.active) >= PrefetchConcurrency THEN p
  ELSE IF hasChunk(cache, Head(p.queue))
       THEN mergeMapDrain([p EXCEPT !.queue = Tail(p.queue), !.called = TRUE], cache)
       ELSE mergeMapDrain([p EXCEPT !.queue = Tail(p.queue), !.called = TRUE,
                                    !.active = p.active \cup {Head(p.queue)}], cache)

\* filter(chunk => !hasChunk(chunk.idx)) (line 211)
notCached(idxs, cache) == SelectSeq(idxs, LAMBDA i : ~hasChunk(cache, i))

\* a mergeMap that has not subscribed anything yet
newPipeline(m, todo) == [meta |-> m, active |-> {}, queue |-> todo, called |-> FALSE]

\* the subscription _prefetchChunks(startTime) opens (lines 209-224)
prefetchChunks(m, startTime, prefetchSec, cache) ==
  mergeMapDrain(newPipeline(m, notCached(relevantChunks(m, startTime, prefetchSec), cache)),
                cache)

\* a subscription with nothing in flight and nothing buffered has completed
Completed(p) == p.active = {} /\ p.queue = <<>>

\* the open subscriptions pf and subscription p, unless p has completed
addPipeline(pf, p) ==
  IF Completed(p) THEN pf ELSE pf (+) SetToBag({[p EXCEPT !.called = FALSE]})

\* the chunks with a read in flight or buffered
Reads(pf) == UNION {p.active \cup Range(p.queue) : p \in BagToSet(pf)}

RECURSIVE SumActive(_, _)
\* the number of reads in flight against the file source
SumActive(pf, ps) ==
  IF ps = {} THEN 0
  ELSE LET p == CHOOSE x \in ps : TRUE
       IN  pf[p] * Cardinality(p.active) + SumActive(pf, ps \ {p})

InFlight(pf) == SumActive(pf, BagToSet(pf))

RECURSIVE SumPending(_, _)
\* the number of reads in flight or buffered
SumPending(pf, ps) ==
  IF ps = {} THEN 0
  ELSE LET p == CHOOSE x \in ps : TRUE
       IN  pf[p] * (Cardinality(p.active) + Len(p.queue)) + SumPending(pf, ps \ {p})

Pending(pf) == SumPending(pf, BagToSet(pf))

\* a cancel that empties the mergeMap buffers but lets the reads in flight finish
\* (a teardown that never calls reader.abort())
cancelQueuedOnly(pf) ==
  SetToBag({[p EXCEPT !.queue = <<>>] : p \in {x \in BagToSet(pf) : x.active # {}}})

\* a cancel that closes nothing (_prefetchChunks without takeUntil)
cancelNothing(pf) == pf

\* _cancelPrefetch$.next(): takeUntil closes every subscription, the readers abort
cancelPrefetch(pf) == EmptyBag

\* what a call of _prefetchChunks leaves: the subscription p it opened beside
\* the subscriptions pf; readChunk$, if it ran, stored the connections of m
openPrefetch(pf, p, m) ==
  /\ prefetches' = addPipeline(pf, p)
  /\ connections' = IF p.called THEN m ELSE connections

\* a call of _prefetchChunks that cancels nothing before
addPrefetch(p, m) ==
  /\ Pending(addPipeline(prefetches, p)) <= MaxPendingReads
  /\ openPrefetch(prefetches, p, m)

(***************************************************************************)
(* RosbagManager._getMessagesInRange (lines 227-252)                       *)
(***************************************************************************)
\* the messages of cached[] with start <= time <= end (lines 240-247)
messagesInRange(msgs, start, end) ==
  SelectSeq(msgs, LAMBDA x : /\ compareTime(x.time, start) >= 0
                             /\ compareTime(x.time, end) <= 0)

\* lines 238-239: a chunk that is not cached contributes nothing
cachedMessages(cache, idx) ==
  IF hasChunk(cache, idx) THEN getCachedChunk(cache, idx) ELSE <<>>

RECURSIVE collectRange(_, _, _, _)
\* the loop over relevantChunks (lines 237-249)
collectRange(chunks, cache, start, end) ==
  IF chunks = <<>> THEN <<>>
  ELSE messagesInRange(cachedMessages(cache, Head(chunks).idx), start, end)
         \o collectRange(Tail(chunks), cache, start, end)

getMessagesInRange(m, cache, start, end) ==
  IF m = NoFile THEN <<>>
  ELSE collectRange(chunksInWindow(chunksInfoOf(m), start, end), cache, start, end)

(***************************************************************************)
(* Bookkeeping of the last step                                            *)
(***************************************************************************)
\* name: the method or callback; time: <<t>> for seek(t); wasPlaying:
\* isPlaying when it was called; evicted: the keys _cleanupCache removed;
\* cancelled: the chunks whose reads a cancel closed; prevSeek: when the step
\* before was a seek too, its time.
Call(name, time, wasPlaying, evicted, cancelled, prevSeek) ==
  [name |-> name, time |-> time, wasPlaying |-> wasPlaying, evicted |-> evicted,
   cancelled |-> cancelled, prevSeek |-> prevSeek]

\* a step the properties below do not single out
Other == Call("other", <<>>, FALSE, <<>>, {}, <<>>)

\* the closure of play() when no timer subscription is open
NoClock == [anchor |-> T(0, 0), elapsedMs |-> 0, lastPrefetchMs |-> 0, meta |-> NoFile]

\* play() lines 127-131: anchor the bag clock at time t on wall-clock now
StartClock(t, m) ==
  [anchor |-> t, elapsedMs |-> 0, lastPrefetchMs |-> TimeSecMs(t), meta |-> m]

(***************************************************************************)
(* Init: the state after `new RosbagManager()`                             *)
(***************************************************************************)
\* no library function is called on its own
NoCall == [fn |-> "none"]

Constructed ==
  /\ bagFile = NoFile
  /\ connections = NoFile
  /\ chunkCache = <<>>
  /\ currentCacheBytes = 0
  /\ msgSchemas = {}
  /\ inspectorFile = NoFile
  /\ inspectorAlive = TRUE
  /\ bagMetadata = NoFile
  /\ currentBagTime = <<>>
  /\ isPlaying = FALSE
  /\ options = DefaultOptions
  /\ clock = NoClock
  /\ timers = 0
  /\ prefetches = EmptyBag
  /\ seekAlive = TRUE
  /\ destroyed = FALSE
  /\ onMessages = <<>>
  /\ lastCall = Call("new", <<>>, FALSE, <<>>, {}, <<>>)

Init ==
  /\ Constructed
  /\ callArgs = NoCall
  /\ callResult = NoCall

(***************************************************************************)
(* loadFile(file), lines 114-118                                           *)
(***************************************************************************)
\* what loadFile(f) does to the manager and the objects it owns
loadFileState(f) ==
  \* _resetPlayback(): pause(), _cancelPrefetch$.next(), _currentBagTime$.next(null)
  /\ isPlaying' = FALSE
  /\ clock' = NoClock
  /\ timers' = 0
  /\ prefetches' = cancelPrefetch(prefetches)
  /\ currentBagTime' = <<>>
  \* _bagInspector.setFile(file): switchMap drops a pending read for a new one
  /\ inspectorFile' = IF inspectorAlive THEN f ELSE inspectorFile
  \* _chunkManager.setFile(file)
  /\ bagFile' = f
  /\ chunkCache' = <<>>
  /\ currentCacheBytes' = 0
  /\ onMessages' = <<>>
  /\ lastCall' = Call("loadFile", <<>>, FALSE, <<>>, Reads(prefetches), <<>>)
  /\ UNCHANGED msgSchemas
  /\ UNCHANGED <<connections, inspectorAlive, bagMetadata, options, seekAlive, destroyed>>

loadFile(f) ==
  /\ loadFileState(f)
  /\ UNCHANGED callVars

(***************************************************************************)
(* The subscriber of bagMetadata$ (constructor, lines 63-67): the header   *)
(* and index reads of the pending file completed                           *)
(***************************************************************************)
metadataLoaded ==
  /\ inspectorFile # NoFile
  /\ bagMetadata' = inspectorFile
  /\ currentBagTime' = <<metaStartTime(inspectorFile)>>
  /\ addPrefetch(prefetchChunks(inspectorFile, metaStartTime(inspectorFile),
                                options.prefetch, chunkCache), inspectorFile)
  /\ inspectorFile' = NoFile
  /\ onMessages' = <<>>
  /\ lastCall' = Other
  /\ UNCHANGED msgSchemas
  /\ UNCHANGED callVars
  /\ UNCHANGED <<bagFile, chunkCache, currentCacheBytes, inspectorAlive, isPlaying,
                 options, clock, timers, seekAlive, destroyed>>

(***************************************************************************)
(* play(), lines 121-134 (the timer callback is the action tick)           *)
(***************************************************************************)
\* a play() that always starts from the start time of the metadata
playFromStart(m, cur) == metaStartTime(m)

\* the bag time play() starts from (lines 124-126)
playFrom(m, cur) == IF cur = <<>> THEN metaStartTime(m) ELSE cur[1]

\* a play() that returns early only when there is no metadata
playReturnsWithoutMetadata(m, playing) == m = NoFile

\* line 123: if (!bagMetadata || this._isPlaying$.value) return
playReturns(m, playing) == m = NoFile \/ playing

play ==
  /\ IF playReturns(bagMetadata, isPlaying)
     THEN UNCHANGED <<currentBagTime, clock, isPlaying, timers>>
     ELSE /\ currentBagTime' = <<playFrom(bagMetadata, currentBagTime)>>
          /\ clock' = StartClock(playFrom(bagMetadata, currentBagTime), bagMetadata)
          /\ isPlaying' = TRUE
          \* lines 132-134: one more subscription to the interval
          /\ timers' = timers + 1
  /\ onMessages' = <<>>
  /\ lastCall' = Other
  /\ UNCHANGED msgSchemas
  /\ UNCHANGED callVars
  /\ UNCHANGED <<bagFile, connections, chunkCache, currentCacheBytes, inspectorFile,
                 inspectorAlive, bagMetadata, options, prefetches, seekAlive, destroyed>>

(***************************************************************************)
(* pause(), lines 173-175                                                  *)
(***************************************************************************)
pause ==
  \* every open timer subscription ends in takeUntil(_isPlaying$ false)
  /\ isPlaying' = FALSE
  /\ clock' = NoClock
  /\ timers' = 0
  /\ onMessages' = <<>>
  /\ lastCall' = Other
  /\ UNCHANGED msgSchemas
  /\ UNCHANGED callVars
  /\ UNCHANGED <<bagFile, connections, chunkCache, currentCacheBytes, inspectorFile,
                 inspectorAlive, bagMetadata, currentBagTime, options, prefetches,
                 seekAlive, destroyed>>

(***************************************************************************)
(* updateOptions(options), lines 181-183                                   *)
(***************************************************************************)
updateOptions(upd) ==
  /\ options' = MergeOptions(options, upd)
  /\ onMessages' = <<>>
  /\ lastCall' = Other
  /\ UNCHANGED msgSchemas
  /\ UNCHANGED callVars
  /\ UNCHANGED <<bagFile, connections, chunkCache, currentCacheBytes, inspectorFile,
                 inspectorAlive, bagMetadata, currentBagTime, isPlaying, clock, timers,
                 prefetches, seekAlive, destroyed>>

(***************************************************************************)
(* seek(time), lines 176-179, and the _seek$ pipeline, lines 68-87         *)
(***************************************************************************)
\* the window of the preview batch: [addSecToTime(time, -0.033), time]
previewBatch(m, cache, t) ==
  getMessagesInRange(m, cache, addSecToTime(t, -TickWindowMs), t)

seek(t) ==
  /\ lastCall' = Call("seek", <<t>>, isPlaying, <<>>, Reads(prefetches),
                      IF lastCall.name = "seek" THEN lastCall.time ELSE <<>>)
  /\ IF ~seekAlive
     THEN \* _cancelPrefetch$.next() only: _seek$ has no subscriber left
          /\ prefetches' = cancelPrefetch(prefetches)
          /\ onMessages' = <<>>
          /\ UNCHANGED <<connections, currentBagTime, isPlaying, clock, timers, seekAlive>>
     ELSE IF bagMetadata = NoFile
     THEN \* pause(), _currentBagTime$.next(time), then _prefetchChunks throws on
          \* the null metadata: the error closes the _seek$ subscription
          /\ prefetches' = cancelPrefetch(prefetches)
          /\ isPlaying' = FALSE
          /\ clock' = NoClock
          /\ timers' = 0
          /\ currentBagTime' = <<t>>
          /\ seekAlive' = FALSE
          /\ onMessages' = <<>>
          /\ UNCHANGED connections
     ELSE /\ openPrefetch(cancelPrefetch(prefetches),
                          prefetchChunks(bagMetadata, t, options.prefetch, chunkCache),
                          bagMetadata)
          /\ currentBagTime' = <<t>>
          /\ UNCHANGED seekAlive
          /\ IF isPlaying
             THEN \* autoResume: pause() then play()
                  /\ isPlaying' = TRUE
                  /\ clock' = StartClock(t, bagMetadata)
                  /\ timers' = 1
                  /\ onMessages' = <<>>
             ELSE /\ isPlaying' = FALSE
                  /\ clock' = NoClock
                  /\ timers' = 0
                  /\ onMessages' = <<previewBatch(bagMetadata, chunkCache, t)>>
  /\ UNCHANGED msgSchemas
  /\ UNCHANGED callVars
  /\ UNCHANGED <<bagFile, chunkCache, currentCacheBytes, inspectorFile, inspectorAlive,
                 bagMetadata, options, destroyed>>

(***************************************************************************)
(* The timer callback of play(), lines 134-171                             *)
(***************************************************************************)
\* lines 145-152: the end of the bag with loop on
tickLoop(resetTime) ==
  /\ currentBagTime' = <<resetTime>>
  /\ clock' = StartClock(resetTime, clock.meta)
  /\ addPrefetch(prefetchChunks(bagMetadata, resetTime, options.prefetch, chunkCache),
                 bagMetadata)
  /\ onMessages' = <<>>
  /\ UNCHANGED <<isPlaying, timers>>

\* lines 153-157: the end of the bag with loop off
tickEnd(resetTime) ==
  /\ isPlaying' = FALSE
  /\ clock' = NoClock
  /\ timers' = 0
  /\ currentBagTime' = <<resetTime>>
  /\ onMessages' = <<>>
  /\ UNCHANGED <<prefetches, connections>>

\* lines 160-170: emit the batch of the tick, prefetch when the gate opens
tickPlay(elapsedMs, newBagTime, newTimeMs) ==
  /\ currentBagTime' = <<newBagTime>>
  /\ onMessages' = <<getMessagesInRange(bagMetadata, chunkCache,
                        addSecToTime(clock.anchor, elapsedMs - TickWindowMs), newBagTime)>>
  /\ UNCHANGED <<isPlaying, timers>>
  /\ IF newTimeMs - clock.lastPrefetchMs > options.prefetch * 500
     THEN /\ addPrefetch(prefetchChunks(bagMetadata, newBagTime, options.prefetch,
                                        chunkCache), bagMetadata)
          /\ clock' = [clock EXCEPT !.elapsedMs = elapsedMs,
                                    !.lastPrefetchMs = newTimeMs]
     ELSE /\ clock' = [clock EXCEPT !.elapsedMs = elapsedMs]
          /\ UNCHANGED <<prefetches, connections>>

\* the callback at elapsedMs of wall time after the anchor
tickAt(elapsedMs, newBagTime) ==
  IF ~isLessThan(newBagTime, metaEndTime(clock.meta))
  THEN IF options.loop
       THEN tickLoop(metaStartTime(clock.meta))
       ELSE tickEnd(metaStartTime(clock.meta))
  ELSE tickPlay(elapsedMs, newBagTime, TimeSecMs(newBagTime))

tick(d) ==
  \* the callback of an open subscription to the interval
  /\ timers > 0
  /\ clock.elapsedMs + d <= MaxElapsedMs
  /\ tickAt(clock.elapsedMs + d,
            addSecToTime(clock.anchor, (clock.elapsedMs + d) * options.playbackSpeed))
  /\ lastCall' = Other
  /\ UNCHANGED msgSchemas
  /\ UNCHANGED callVars
  /\ UNCHANGED <<bagFile, chunkCache, currentCacheBytes, inspectorFile, inspectorAlive,
                 bagMetadata, options, seekAlive, destroyed>>

(***************************************************************************)
(* reader.onload of readChunk$, lines 63-76, for the read of chunk c in    *)
(* flight in subscription p; then mergeMap takes the next buffered chunk   *)
(***************************************************************************)
\* the pipelines and chunk indices the model draws read completions from
Pipelines == BagToSet(prefetches)
ChunkIdxs == 0..2

\* the state onload of the read of chunk c leaves: r is the cache after insertion and eviction, q
\* the mergeMap of p after it took the next buffered chunks
readDone(p, c, r, q) ==
  /\ chunkCache' = r.cache
  /\ currentCacheBytes' = r.bytes
  /\ msgSchemas' = schemasAfter(msgSchemas, p.meta, c, bagFile, connections)
  /\ openPrefetch(prefetches (-) SetToBag({p}), q, bagMetadata)
  /\ lastCall' = Call("readLoaded", <<>>, FALSE, r.evicted, {}, <<>>)

\* p once the read of c completed, its free slot refilled from the buffer
afterRead(p, c, cache) ==
  mergeMapDrain([p EXCEPT !.active = p.active \ {c}, !.called = FALSE], cache)

readLoaded(p, c) ==
  /\ p \in Pipelines
  /\ c \in p.active
  /\ readDone(p, c, onload(chunkCache, currentCacheBytes, p.meta, c, bagFile, connections),
              afterRead(p, c, onload(chunkCache, currentCacheBytes, p.meta, c, bagFile,
                                     connections).cache))
  /\ onMessages' = <<>>
  /\ UNCHANGED callVars
  /\ UNCHANGED <<bagFile, inspectorFile, inspectorAlive, bagMetadata, currentBagTime,
                 isPlaying, options, clock, timers, seekAlive, destroyed>>

(***************************************************************************)
(* reader.onerror, or a throw of _processChunkBuffer caught at line 77:    *)
(* subscriber.error closes subscription p and aborts its other reads       *)
(***************************************************************************)
readFailed(p, c) ==
  /\ p \in Pipelines
  /\ c \in p.active
  /\ prefetches' = prefetches (-) SetToBag({p})
  /\ onMessages' = <<>>
  /\ lastCall' = Other
  /\ UNCHANGED msgSchemas
  /\ UNCHANGED callVars
  /\ UNCHANGED <<bagFile, connections, chunkCache, currentCacheBytes, inspectorFile,
                 inspectorAlive, bagMetadata, currentBagTime, isPlaying, options, clock,
                 timers, seekAlive, destroyed>>

(***************************************************************************)
(* destroyInstance(), lines 185-190                                        *)
(***************************************************************************)
destroyInstance ==
  \* _resetPlayback()
  /\ isPlaying' = FALSE
  /\ clock' = NoClock
  /\ timers' = 0
  /\ prefetches' = cancelPrefetch(prefetches)
  /\ currentBagTime' = <<>>
  \* _destroyInstance$.next(): takeUntil closes the _seek$ pipeline
  /\ seekAlive' = FALSE
  /\ destroyed' = TRUE
  \* _bagInspector.destroyInstance(): closes bagMetadata$ and aborts its read
  /\ inspectorAlive' = FALSE
  /\ inspectorFile' = NoFile
  /\ onMessages' = <<>>
  /\ lastCall' = Call("destroyInstance", <<>>, FALSE, <<>>, Reads(prefetches), <<>>)
  /\ UNCHANGED msgSchemas
  /\ UNCHANGED callVars
  /\ UNCHANGED <<bagFile, connections, chunkCache, currentCacheBytes, bagMetadata, options>>

(***************************************************************************)
(* The specification                                                       *)
(***************************************************************************)
\* every call and callback, in any order
Next ==
  \/ \E f \in FileIds : loadFile(f)
  \/ metadataLoaded
  \/ play
  \/ pause
  \/ \E t \in SeekTimes : seek(t)
  \/ \E u \in OptionUpdates : updateOptions(u)
  \/ \E d \in TickDelaysMs : tick(d)
  \/ \E p \in Pipelines, c \in ChunkIdxs : readLoaded(p, c)
  \/ \E p \in Pipelines, c \in ChunkIdxs : readFailed(p, c)
  \/ destroyInstance

Spec == Init /\ [][Next]_vars

\* the same program driven by a client that seeks only in a bag whose metadata
\* has loaded (the seek bar of a player is built from the metadata)
NextLoaded ==
  \/ \E f \in FileIds : loadFile(f)
  \/ metadataLoaded
  \/ play
  \/ pause
  \/ \E t \in SeekTimes : bagMetadata # NoFile /\ seek(t)
  \/ \E u \in OptionUpdates : updateOptions(u)
  \/ \E d \in TickDelaysMs : tick(d)
  \/ \E p \in Pipelines, c \in ChunkIdxs : readLoaded(p, c)
  \/ \E p \in Pipelines, c \in ChunkIdxs : readFailed(p, c)
  \/ destroyInstance

SpecLoaded == Init /\ [][NextLoaded]_vars

(***************************************************************************)
(* addSecToTime called on its own (utils/timeUtil.ts:19-27)                *)
(***************************************************************************)
\* the largest sec of a time offered
MaxTimeSec == 5
\* the offsets offered are the multiples of 250 ms up to this many steps
\* either way, and 33 ms either way
MaxOffsetSteps == 6

\* times with nsec in [0, 1e9)
TimeInputs ==
  {T(sec, nsec) : sec \in 0..MaxTimeSec, nsec \in {0, 1, 500000000, NanoPerSec - 1}}

\* offsets in ms: negative, zero and positive, whole and fractional seconds
OffsetInputsMs ==
  {250 * k : k \in (0 - MaxOffsetSteps)..MaxOffsetSteps} \cup {0 - TickWindowMs, TickWindowMs}

InitTime ==
  /\ Constructed
  /\ callArgs \in {[fn |-> "addSecToTime", time |-> t, ms |-> ms] :
                     t \in TimeInputs, ms \in OffsetInputsMs}
  /\ callResult = NoCall

callAddSecToTime ==
  /\ callArgs.fn = "addSecToTime"
  /\ callResult = NoCall
  /\ callResult' = [fn |-> "addSecToTime", time |-> addSecToTime(callArgs.time, callArgs.ms)]
  /\ UNCHANGED callArgs
  /\ UNCHANGED managerVars

NextTime == callAddSecToTime

SpecTime == InitTime /\ [][NextTime]_vars

(***************************************************************************)
(* _extractFileMetadata$ called on its own, on the index region of a file  *)
(* (unnamed/part_001:134-193)                                              *)
(***************************************************************************)
\* the most chunk-info records in an index region offered
MaxIndexChunks == 3

\* the start times offered; two chunks may start at the same time
IndexStartTimes == {T(0, 0), T(4, 0), T(4, 500000000)}

\* a chunk lasts no time, or four seconds
IndexEndTime(start, long) == IF long THEN T(start.sec + 4, start.nsec) ELSE start

\* the k-th chunk record of a file stands at this position
IndexChunkPosition(k) == HEADER_PADDING + (k - 1) * MiB

\* the orders the n chunk-info records of a file can stand in
IndexOrders(n) == {p \in [1..n -> 1..n] : \A i, j \in 1..n : p[i] = p[j] => i = j}

\* a file of n chunks whose index region lists the chunks in the order p
IndexedFile(n, p, starts, longs) ==
  [size   |-> IndexChunkPosition(n + 1),
   chunks |-> [i \in 1..n |->
                 RawChunk(IndexChunkPosition(p[i]), starts[i],
                          IndexEndTime(starts[i], longs[i]), <<>>)]]

IndexedFiles ==
  UNION {{IndexedFile(n, p, starts, longs) :
            p \in IndexOrders(n), starts \in [1..n -> IndexStartTimes],
            longs \in [1..n -> BOOLEAN]} : n \in 1..MaxIndexChunks}

InitIndex ==
  /\ Constructed
  /\ callArgs \in {[fn |-> "extractFileMetadata", file |-> f] : f \in IndexedFiles}
  /\ callResult = NoCall

callExtractFileMetadata ==
  /\ callArgs.fn = "extractFileMetadata"
  /\ callResult = NoCall
  /\ callResult' = [fn |-> "extractFileMetadata",
                    metadata |-> extractFileMetadata(callArgs.file)]
  /\ UNCHANGED callArgs
  /\ UNCHANGED managerVars

NextIndex == callExtractFileMetadata

SpecIndex == InitIndex /\ [][NextIndex]_vars

(***************************************************************************)
(* The decoding loop of _processChunkBuffer called on its own, with a new  *)
(* MessageReaders, on two messages of a chunk                              *)
(***************************************************************************)
\* the most values in the buffer of a message
MaxBufferLen == 5

\* IMsgSchema with the message type it was parsed for; MSGSTypes in the
\* iteration order of the Map
Schema(msgType, topLevelKeys, types) ==
  [msgType |-> msgType, topLevelKeys |-> topLevelKeys, MSGSTypes |-> types]

\* a nested type: the entry parseMsgDefinition stores in MSGSTypes
NestedType(keyType, nestedKeys) == Format(keyType, keyType, FALSE, 0, "", nestedKeys)

\* pose: a nested type with a field of another nested type and a field after it
PoseSchema ==
  Schema("posestamped", <<Field("pose", "pose")>>,
         <<NestedType("pose", <<Field("x", "float64"), Field("orientation", "quaternion"),
                                Field("y", "float64")>>),
           NestedType("quaternion", <<Field("w", "float64")>>)>>)

\* an array of nested records whose type has primitive fields only
PathSchema ==
  Schema("path", <<Format("points", "point", TRUE, 0, "", <<>>)>>,
         <<NestedType("point", <<Field("x", "float64"), Field("y", "float64")>>)>>)

\* a field whose type is neither primitive nor defined in the schema
UnknownSchema ==
  Schema("reading", <<Field("seq", "uint32"), Field("extra", "mystery"),
                      Field("value", "float64")>>, <<>>)

\* a nested type of primitive fields, then a primitive field
HeaderSchema ==
  Schema("stamped", <<Field("header", "header"), Field("value", "float64")>>,
         <<NestedType("header", <<Field("seq", "uint32")>>)>>)

Schemas == {PoseSchema, PathSchema, UnknownSchema, HeaderSchema}

\* the buffers offered: up to MaxBufferLen values, each 1 or 2
Buffers == UNION {[1..n -> {1, 2}] : n \in 0..MaxBufferLen}

InitDecode ==
  /\ Constructed
  /\ callArgs \in {[fn |-> "decodeMessages",
                      msgs |-> <<[schema |-> s1, buffer |-> b1],
                                 [schema |-> HeaderSchema, buffer |-> b2]>>] :
                     s1 \in Schemas, b1 \in Buffers, b2 \in Buffers}
  /\ callResult = NoCall

callDecodeMessages ==
  /\ callArgs.fn = "decodeMessages"
  /\ callResult = NoCall
  /\ callResult' = [fn |-> "decodeMessages",
                    rosMessages |-> decodeMessages(NewReaders, callArgs.msgs, 1, <<>>)]
  /\ UNCHANGED callArgs
  /\ UNCHANGED managerVars

NextDecode == callDecodeMessages

SpecDecode == InitDecode /\ [][NextDecode]_vars

(***************************************************************************)
(* Properties of the chunk cache                                           *)
(***************************************************************************)
\* C1: once an insertion has run its eviction the accounted bytes are within
\* the budget: _currentCacheBytes <= _maxCacheBytes in every state, whatever
\* reads, cancels and loadFile calls came before and whatever the chunk sizes,
\* a chunk larger than the whole budget included.
C1_CacheWithinBudget == currentCacheBytes <= maxCacheBytes

\* the 60 MiB chunk of FileB was read, inserted and evicted by its own insertion
C1_OversizeChunkEvicted ==
  /\ lastCall.name = "readLoaded"
  /\ Files[bagFile] = FileB
  /\ lastCall.evicted = <<0>>
  /\ chunkCache = <<>>
  /\ currentCacheBytes <= maxCacheBytes

\* C2: in every state _currentCacheBytes is the sum of the sizes of the
\* entries in the cache, also when two overlapping prefetches read the same
\* uncached chunk and both reads complete.
C2_BytesEqualSum ==
  LET RECURSIVE SumSizes(_)
      SumSizes(c) == IF c = <<>> THEN 0 ELSE Head(c).size + SumSizes(Tail(c))
  IN  currentCacheBytes = SumSizes(chunkCache)

\* C3: eviction is first-in first-out and only under byte pressure: a step
\* other than a completed read or loadFile (whose setFile clears the cache)
\* removes nothing; a completed read removes exactly the first n keys of the
\* Map as it is after the insertion, and before each of the n removals the
\* accounted bytes were above the budget.
C3_EvictionFifoUnderPressure ==
  [][ /\ lastCall'.name \notin {"readLoaded", "loadFile"} => chunkCache' = chunkCache
      /\ lastCall'.name = "readLoaded" =>
            \E m \in FileIds : \E c \in 0..(Len(chunksInfoOf(m)) - 1) :
              LET RECURSIVE SumSizes(_)
                  SumSizes(q) == IF q = <<>> THEN 0 ELSE Head(q).size + SumSizes(Tail(q))
                  entry == [idx |-> c, size |-> chunkSize(m, c), meta |-> m,
                            messages |-> processChunkBuffer(m, c, bagFile, connections)]
                  ins == cacheSet(chunkCache, entry)
                  n == Len(lastCall'.evicted)
              IN  /\ n <= Len(ins)
                  /\ lastCall'.evicted = [i \in 1..n |-> ins[i].idx]
                  /\ chunkCache' = SubSeq(ins, n + 1, Len(ins))
                  /\ \A k \in 1..n :
                        currentCacheBytes' + SumSizes(SubSeq(ins, k, n)) > maxCacheBytes
    ]_vars

\* the 30 MiB chunk 0 of FileA was cached, the 25 MiB chunk 1 was inserted:
\* chunk 0 was evicted and 25 MiB are accounted
C3_FirstInsertedEvicted ==
  /\ lastCall.name = "readLoaded"
  /\ Files[bagFile] = FileA
  /\ lastCall.evicted = <<0>>
  /\ CacheKeys(chunkCache) = {1}
  /\ currentCacheBytes = 25 * MiB

(***************************************************************************)
(* Properties of prefetch, cancellation and seek                           *)
(***************************************************************************)
\* C4: a cancel (seek, loadFile and destroyInstance send it) closes every open
\* prefetch subscription, so that no read in flight or buffered at that moment
\* can complete afterwards: the only subscription open after the step is the
\* one a seek opens itself.  The cancel of seek and destroyInstance leaves the
\* cache and its byte count as they were (loadFile goes on to setFile, which
\* clears the cache on purpose).
C4_CancelClosesEveryRead ==
  [][ lastCall'.name \in {"seek", "loadFile", "destroyInstance"} =>
        /\ prefetches' =
              IF lastCall'.name = "seek" /\ seekAlive /\ bagMetadata # NoFile
              THEN addPipeline(EmptyBag, prefetchChunks(bagMetadata, lastCall'.time[1],
                                                        options.prefetch, chunkCache))
              ELSE EmptyBag
        /\ lastCall'.name # "loadFile" =>
              chunkCache' = chunkCache /\ currentCacheBytes' = currentCacheBytes
    ]_vars

\* a seek cancelled pending reads while the cache held an entry
C4_SeekCancelledReads ==
  /\ lastCall.name = "seek"
  /\ lastCall.cancelled # {}
  /\ chunkCache # <<>>

\* C5: at most 2 prefetch chunk reads are in flight against the file at any
\* time, also when a prefetch is triggered while an earlier one still reads.
C5_AtMostTwoInFlight == InFlight(prefetches) <= PrefetchConcurrency

\* C6: the preview batch of seek(t) called while paused, on a loaded bag,
\* holds only messages with t - 33 ms <= time <= t.
C6_PreviewWithin33Ms ==
  (lastCall.name = "seek" /\ ~lastCall.wasPlaying /\ onMessages # <<>>) =>
    LET t == lastCall.time[1]
        w == TickWindowMs * NanoPerMs
        from == IF t.nsec >= w THEN T(t.sec, t.nsec - w)
                ELSE T(t.sec - 1, t.nsec + NanoPerSec - w)
    IN  \A i \in 1..Len(onMessages) : \A j \in 1..Len(onMessages[i]) :
          /\ compareTime(onMessages[i][j].time, from) >= 0
          /\ compareTime(onMessages[i][j].time, t) <= 0

\* C7: seek(t) called while playing, on a manager that was not destroyed,
\* leaves the player playing, with _currentBagTime at t and the clock anchored
\* at t.
C7_SeekWhilePlayingResumes ==
  (lastCall.name = "seek" /\ lastCall.wasPlaying /\ ~destroyed) =>
    /\ isPlaying
    /\ currentBagTime = lastCall.time
    /\ clock.anchor = lastCall.time[1]
    /\ clock.elapsedMs = 0

\* C8: a seek cancels the reads of the seek before it: after seek(t2) every
\* read in flight or buffered is for a chunk of t2's prefetch window, so a
\* chunk that was pending only for t1's window cannot reach the cache; the
\* seek itself inserts nothing.
C8_OnlyLatestSeekReads ==
  [][ (lastCall'.name = "seek" /\ bagMetadata # NoFile) =>
        /\ Reads(prefetches') \subseteq
              Range(relevantChunks(bagMetadata, lastCall'.time[1], options.prefetch))
        /\ chunkCache' = chunkCache
    ]_vars

\* seek(t2) followed seek(t1) and cancelled a read of t1 for a chunk outside
\* t2's window
C8_SecondSeekCancelledFirst ==
  /\ lastCall.name = "seek"
  /\ lastCall.prevSeek # <<>>
  /\ lastCall.prevSeek # lastCall.time
  /\ bagMetadata # NoFile
  /\ lastCall.cancelled \ Range(relevantChunks(bagMetadata, lastCall.time[1],
                                                options.prefetch)) # {}

\* C9: of two seeks called back to back while paused only the second emits a
\* preview batch: the two calls together emit exactly one batch.
C9_OnlyLatestPreview ==
  [][ ( /\ lastCall.name = "seek" /\ ~lastCall.wasPlaying
        /\ lastCall'.name = "seek" /\ ~lastCall'.wasPlaying
        /\ seekAlive /\ bagMetadata # NoFile ) =>
        Len(onMessages) + Len(onMessages') = 1
    ]_vars

\* C10: after destroyInstance() no call changes _isPlaying, _currentBagTime,
\* the options or the cache, and none starts a chunk read.
C10_DestroyedIsInert ==
  [][ destroyed =>
        /\ UNCHANGED <<isPlaying, currentBagTime, options, chunkCache>>
        /\ Reads(prefetches') \subseteq Reads(prefetches)
    ]_vars

(***************************************************************************)
(* Properties of loadFile and of the metadata stream                       *)
(***************************************************************************)
\* C11: right after loadFile returns the player is paused, _currentBagTime is
\* null, no prefetch read is pending, the cache is empty and accounts 0 bytes;
\* and once the metadata of the loaded file is published the cache holds no
\* entry that was read with the chunk table of the metadata published before.
C11_LoadFileResets ==
  /\ lastCall.name = "loadFile" =>
        /\ ~isPlaying
        /\ currentBagTime = <<>>
        /\ prefetches = EmptyBag
        /\ chunkCache = <<>>
        /\ currentCacheBytes = 0
  /\ (bagFile # NoFile /\ bagMetadata = bagFile /\ inspectorFile = NoFile) =>
        \A i \in 1..Len(chunkCache) : chunkCache[i].meta = bagFile

\* C12: loadFile leaves _msgSchemas empty, so that a chunk of the loaded
\* file is never decoded with a schema parsed from the definition of a file
\* loaded before: after a read decoded messages, the schema held for the
\* message type of each of them is the one of its own connection record.
C12_LoadFileClearsSchemas ==
  [][ /\ lastCall'.name = "loadFile" => msgSchemas' = {}
      /\ lastCall'.name = "readLoaded" =>
            \A i \in 1..Len(chunkCache') :
              \A j \in 1..Len(chunkCache'[i].messages) :
                Files[chunkCache'[i].meta].defs[chunkCache'[i].messages[j].conn]
                  \in msgSchemas'
    ]_vars

\* C13: the metadata of a loaded file is published at most once, by the step
\* that ends its pending header and index read, and no timer callback runs
\* (none publishes a bag time or a batch) while the metadata of the file
\* loaded last is still pending, also when another file's metadata was
\* published before.
C13_MetadataBeforePlayback ==
  [][ /\ bagMetadata' # bagMetadata =>
            inspectorFile # NoFile /\ bagMetadata' = inspectorFile /\ inspectorFile' = NoFile
      /\ inspectorFile # NoFile => ~(\E d \in TickDelaysMs : tick(d))
    ]_vars

(***************************************************************************)
(* Properties of the batches and of the loop                               *)
(***************************************************************************)
\* C14: in every batch emitted on _onMessages, by a timer callback or as the
\* preview of a seek, the messages are in non-decreasing time order, also
\* when two chunks that overlap the window overlap each other.
C14_BatchInTimeOrder ==
  \A i \in 1..Len(onMessages) : \A j \in 1..(Len(onMessages[i]) - 1) :
    compareTime(onMessages[i][j].time, onMessages[i][j + 1].time) <= 0

\* C15: a timer callback whose new bag time is not before the end time of the
\* metadata, with loop on, publishes the start time of the metadata as
\* _currentBagTime, emits no batch, leaves the player playing, re-anchors the
\* clock at the start time and calls _prefetchChunks(start time).
C15_LoopTransition ==
  [][ \A d \in TickDelaysMs :
        ( /\ tick(d)
          /\ options.loop
          /\ ~isLessThan(addSecToTime(clock.anchor,
                                      (clock.elapsedMs + d) * options.playbackSpeed),
                         metaEndTime(bagMetadata)) ) =>
          /\ currentBagTime' = <<metaStartTime(bagMetadata)>>
          /\ onMessages' = <<>>
          /\ isPlaying'
          /\ clock'.anchor = metaStartTime(bagMetadata)
          /\ clock'.elapsedMs = 0
          /\ prefetches' = addPipeline(prefetches,
                             prefetchChunks(bagMetadata, metaStartTime(bagMetadata),
                                            options.prefetch, chunkCache))
    ]_vars

(***************************************************************************)
(* Properties of the library functions                                     *)
(***************************************************************************)
\* C18: for a time t with nsec in [0, 1e9) and an offset s, negative, zero or
\* positive, addSecToTime(t, s) has nsec in [0, 1e9) and is exactly s later
\* than t: the difference of the two times, in nanoseconds, is s.
C18_AddIsExactAndNormalized ==
  callResult.fn = "addSecToTime" =>
    /\ callResult.time.nsec >= 0
    /\ callResult.time.nsec < NanoPerSec
    /\ (callResult.time.nsec - callArgs.time.nsec) % NanoPerMs = 0
    /\ (callResult.time.sec - callArgs.time.sec) * 1000
         + (callResult.time.nsec - callArgs.time.nsec) \div NanoPerMs = callArgs.ms

\* C16: in the published metadata the chunks link forward in the sorted
\* order: nextChunkPosition of every chunk but the last is the chunkPosition
\* of the chunk after it in chunksInfo, and of the last it is the file size,
\* whatever the order of the chunk-info records in the index region.
C16_ForwardChunkLinks ==
  callResult.fn = "extractFileMetadata" =>
    \A i \in 1..Len(callResult.metadata.chunksInfo) :
      callResult.metadata.chunksInfo[i].nextChunkPosition =
        IF i < Len(callResult.metadata.chunksInfo)
        THEN callResult.metadata.chunksInfo[i + 1].chunkPosition
        ELSE callArgs.file.size

\* C17: in the published metadata chunksInfo is in non-decreasing startTime
\* order, chunks with equal startTime stand in the order the index region
\* lists them, the idx of every entry is its (zero-based) position, and the
\* metadata's startTime is not after its endTime when no chunk's is.
C17_SortedChunkIndex ==
  callResult.fn = "extractFileMetadata" =>
    LET c == callResult.metadata.chunksInfo
        raw == callArgs.file.chunks
        \* where the index region lists the chunk at this position
        listed(pos) == CHOOSE k \in 1..Len(raw) : raw[k].chunkPosition = pos
    IN  /\ Len(c) = Len(raw)
        /\ \A i \in 1..Len(c) : c[i].idx = i - 1
        /\ \A i \in 1..(Len(c) - 1) :
             /\ compareTime(c[i].startTime, c[i + 1].startTime) <= 0
             /\ compareTime(c[i].startTime, c[i + 1].startTime) = 0 =>
                  listed(c[i].chunkPosition) < listed(c[i + 1].chunkPosition)
        /\ (\A k \in 1..Len(raw) : compareTime(raw[k].startTime, raw[k].endTime) <= 0) =>
             compareTime(callResult.metadata.startTime, callResult.metadata.endTime) <= 0

\* a sort that moved a record and kept a tie: the index region was not in
\* startTime order, and two chunks of equal startTime stand in the order the
\* index region listed them although their positions in the file are reversed
C17_TieKeptAfterSort ==
  /\ callResult.fn = "extractFileMetadata"
  /\ \E k \in 1..(Len(callArgs.file.chunks) - 1) :
       compareTime(callArgs.file.chunks[k].startTime,
                   callArgs.file.chunks[k + 1].startTime) > 0
  /\ \E i \in 1..(Len(callResult.metadata.chunksInfo) - 1) :
       /\ callResult.metadata.chunksInfo[i].startTime =
            callResult.metadata.chunksInfo[i + 1].startTime
       /\ callResult.metadata.chunksInfo[i].chunkPosition >
            callResult.metadata.chunksInfo[i + 1].chunkPosition

\* C19: in every decoded message the value of a field of a nested type, at
\* any depth and in arrays, is a record holding exactly the fields of that
\* type in declaration order: a field declared after a nested field is in
\* its own parent's record, and decoding an inner record never takes the
\* place of the outer one.
C19_NestedRecordPerInvocation ==
  callResult.fn = "decodeMessages" =>
    \A r \in 1..Len(callResult.rosMessages) :
      LET s == callArgs.msgs[callResult.rosMessages[r].source].schema
          data == callResult.rosMessages[r].data
          Defined(keyType) == \E i \in 1..Len(s.MSGSTypes) : s.MSGSTypes[i].keyType = keyType
          FieldsOf(keyType) ==
            s.MSGSTypes[CHOOSE i \in 1..Len(s.MSGSTypes) :
                          s.MSGSTypes[i].keyType = keyType].nestedKeys
          RECURSIVE Shaped(_, _)
          ShapedOne(v, f) ==
            IF f.keyType \in StdTypes \/ ~Defined(f.keyType) THEN TRUE
            ELSE /\ v.kind = "object"
                 /\ Len(v.value) = Len(FieldsOf(f.keyType))
                 /\ \A i \in 1..Len(v.value) :
                      /\ v.value[i].key = FieldsOf(f.keyType)[i].key
                      /\ Shaped(v.value[i].value, FieldsOf(f.keyType)[i])
          Shaped(v, f) ==
            IF f.constantValue # "" THEN TRUE
            ELSE IF f.isArray
                 THEN v.kind = "array" /\ \A j \in 1..Len(v.value) : ShapedOne(v.value[j], f)
                 ELSE ShapedOne(v, f)
      IN  /\ data.kind = "object"
          /\ Len(data.value) = Len(s.topLevelKeys)
          /\ \A i \in 1..Len(data.value) :
               /\ data.value[i].key = s.topLevelKeys[i].key
               /\ Shaped(data.value[i].value, s.topLevelKeys[i])

\* C20: a message whose schema has a field of a type that is neither a
\* primitive nor defined in the schema's nested types is left out of the
\* messages of the chunk, and the other messages of the chunk that decode on
\* their own are still returned.
C20_UnknownTypeSkipsMessage ==
  callResult.fn = "decodeMessages" =>
    LET Undefined(s, f) ==
          /\ f.constantValue = ""
          /\ f.keyType \notin StdTypes
          /\ \A i \in 1..Len(s.MSGSTypes) : s.MSGSTypes[i].keyType # f.keyType
        HasUnknown(s) ==
          \/ \E i \in 1..Len(s.topLevelKeys) : Undefined(s, s.topLevelKeys[i])
          \/ \E i \in 1..Len(s.MSGSTypes) : \E j \in 1..Len(s.MSGSTypes[i].nestedKeys) :
               Undefined(s, s.MSGSTypes[i].nestedKeys[j])
        Returned(k) ==
          \E r \in 1..Len(callResult.rosMessages) : callResult.rosMessages[r].source = k
    IN  \A k \in 1..Len(callArgs.msgs) :
          /\ HasUnknown(callArgs.msgs[k].schema) => ~Returned(k)
          /\ ( /\ ~HasUnknown(callArgs.msgs[k].schema)
               /\ ~readMsg(NewReaders, callArgs.msgs[k].schema.msgType,
                           callArgs.msgs[k].schema, callArgs.msgs[k].buffer).failed )
             => Returned(k)

(***************************************************************************)
(* reader.onload of readChunk$ called on its own (chunk-info-manager.ts    *)
(* 63-79) on the buffer of one chunk, in a manager whose cache is empty.   *)
(* The chunk is its message records in index-data order; the connections   *)
(* map gives each connection its type and its definition.  A definition is *)
(* stood for by the schema parseMsgDefinition returns for it.              *)
(***************************************************************************)
\* the most message records in a chunk offered
MaxChunkRecords == 3

\* messageDefinition of a connection record whose data has no
\* message_definition field: getField returns undefined (helper-functions.ts:83-85)
NoDefinition == [undefined |-> TRUE]

\* a message record: the conn and time of its header and its data buffer
Record(c, t, buf) == [conn |-> c, time |-> t, buffer |-> buf]

\* the connections map of the metadata: two connections with a definition,
\* one without
ChunkConnections ==
  [c \in {0, 1, 2} |->
     IF c = 0 THEN Conn("stamped", HeaderSchema)
     ELSE IF c = 1 THEN Conn("path", PathSchema)
     ELSE Conn("status", NoDefinition)]

\* the conns a message record may name; 7 is not in the connections map
RecordConns == {0, 1, 2, 7}
RecordTimes == {T(1, 0), T(2, 0)}
RecordBuffers == {<<>>, <<1>>, <<1, 1>>, <<1, 1, 1>>}

Records == {Record(c, t, b) : c \in RecordConns, t \in RecordTimes, b \in RecordBuffers}

\* the sort keys of the message pointers: recievedTime
recordTimes(recs) == [i \in 1..Len(recs) |-> recs[i].time]

\* sortedPointers (lines 135-137)
sortedPointers(recs) == SortByTime(recs, recordTimes(recs))

\* the locals of _processChunkBuffer on entering its loop, with the manager's
\* _readers and _msgSchemas; thrown: an exception left the function
loopState(readers, schemas) ==
  [readers |-> readers, schemas |-> schemas, rosMessages |-> <<>>, thrown |-> FALSE]

\* this._msgSchemas.get(messageType)
schemaOf(schemas, messageType) ==
  (CHOOSE s \in schemas : s.messageType = messageType).messageDefinition

\* lines 153-157: on a miss parseMsgDefinition(messageDefinition) is called and
\* its result stored; msgDef.split (helper-functions.ts:110) throws a
\* TypeError on undefined, outside the try of line 159
withSchema(s, connection) ==
  IF connection.messageType \in SchemaTypes(s.schemas) THEN s
  ELSE IF connection.messageDefinition = NoDefinition THEN [s EXCEPT !.thrown = TRUE]
  ELSE [s EXCEPT !.schemas = s.schemas \cup {connection}]

\* lines 166-176 once readMsg returned or threw: push, or catch and warn
pushParsed(s, rec, d) ==
  [s EXCEPT !.readers = d,
            !.rosMessages =
               IF d.failed THEN s.rosMessages
               ELSE Append(s.rosMessages,
                           [conn |-> rec.conn, time |-> rec.time,
                            data |-> plain(d.heap, d.out)])]

\* lines 159-176
tryReadMsg(s, rec, connection) ==
  IF s.thrown THEN s
  ELSE pushParsed(s, rec,
                  readMsg(s.readers, connection.messageType,
                          schemaOf(s.schemas, connection.messageType), rec.buffer))

\* one iteration of the loop (lines 140-176)
processPointer(s, rec, conns) ==
  IF rec.conn \notin DOMAIN conns THEN s
  ELSE tryReadMsg(withSchema(s, conns[rec.conn]), rec, conns[rec.conn])

RECURSIVE processPointers(_, _, _, _)
\* the loop of lines 139-177
processPointers(s, recs, i, conns) ==
  IF s.thrown \/ i > Len(recs) THEN s
  ELSE processPointers(processPointer(s, recs[i], conns), recs, i + 1, conns)

\* _processChunkBuffer on a chunk record of the given message records
processChunkRecords(readers, schemas, recs, conns) ==
  processPointers(loopState(readers, schemas), sortedPointers(recs), 1, conns)

\* lines 69-76 with the cache after insertion and eviction
onloadInserted(r, s) ==
  /\ chunkCache' = r.cache
  /\ currentCacheBytes' = r.bytes
  /\ msgSchemas' = s.schemas
  /\ callResult' = [fn |-> "onload", error |-> FALSE, messages |-> s.rosMessages]

\* lines 64-79: subscriber.next(messages), or subscriber.error(err) when
\* _processChunkBuffer threw; the schemas stored before the throw stay
onloadReturned(s) ==
  IF s.thrown
  THEN /\ callResult' = [fn |-> "onload", error |-> TRUE, messages |-> <<>>]
       /\ msgSchemas' = s.schemas
       /\ UNCHANGED <<chunkCache, currentCacheBytes>>
  ELSE onloadInserted(insertEntry(chunkCache, currentCacheBytes,
                                  [idx |-> callArgs.idx, messages |-> s.rosMessages,
                                   size |-> callArgs.size, meta |-> NoFile]), s)

InitChunk ==
  /\ Constructed
  /\ callArgs \in {[fn |-> "onload", idx |-> 0, size |-> MiB, records |-> recs] :
                     recs \in UNION {[1..n -> Records] : n \in 1..MaxChunkRecords}}
  /\ callResult = NoCall

callOnload ==
  /\ callArgs.fn = "onload"
  /\ callResult = NoCall
  /\ onloadReturned(processChunkRecords(NewReaders, msgSchemas, callArgs.records,
                                        ChunkConnections))
  /\ UNCHANGED callArgs
  /\ UNCHANGED <<bagFile, connections, inspectorFile, inspectorAlive, bagMetadata,
                 currentBagTime, isPlaying, options, clock, timers, prefetches, seekAlive,
                 destroyed, onMessages, lastCall>>

NextChunk == callOnload

SpecChunk == InitChunk /\ [][NextChunk]_vars

(***************************************************************************)
(* Properties of error handling                                            *)
(***************************************************************************)
\* C21: when the decoding of a message of a chunk throws, or its conn is not
\* in the connections map, only that message is left out: the read of the
\* chunk succeeds, its entry is in the cache, and the entry holds every other
\* message of the chunk in received-time order.
C21_MessageFailureIsolated ==
  callResult.fn = "onload" =>
    LET conns == ChunkConnections
        Throws(rec) ==
          \/ conns[rec.conn].messageDefinition = NoDefinition
          \/ readMsg(NewReaders, conns[rec.conn].messageType,
                     conns[rec.conn].messageDefinition, rec.buffer).failed
        kept == SelectSeq(sortedPointers(callArgs.records),
                          LAMBDA rec : rec.conn \in DOMAIN conns /\ ~Throws(rec))
    IN  /\ ~callResult.error
        /\ hasChunk(chunkCache, callArgs.idx)
        /\ LET messages == getCachedChunk(chunkCache, callArgs.idx)
           IN  /\ Len(messages) = Len(kept)
               /\ \A i \in 1..Len(kept) :
                    /\ messages[i].conn = kept[i].conn
                    /\ messages[i].time = kept[i].time
               /\ \A i \in 1..(Len(messages) - 1) :
                    compareTime(messages[i].time, messages[i + 1].time) <= 0

(***************************************************************************)
(* The metadata stream of BagInspector (unnamed/part_001:38-193) with the  *)
(* header of the loaded file given.  A header buffer is the bytes          *)
(* file.slice(0, HEADER_PADDING) read: its length, the string its first 13 *)
(* bytes decode to, the int32 at offset 13 and the fields that stand in    *)
(* the bytes after it (each with the length of its data and whether the    *)
(* data holds an '=').                                                     *)
(***************************************************************************)
\* utils/bag-format-constants.ts
FORMAT_VERSION_OFFSET == 13
FORMAT_VERSION == "#ROSBAG V2.0\n"
HEADER_MIN_LEN == 8

HeaderField(name, fieldLen, equal, value) ==
  [name |-> name, fieldLen |-> fieldLen, equal |-> equal, value |-> value]

HeaderBuffer(magic, length, headerLength, fields) ==
  [magic |-> magic, length |-> length, headerLength |-> headerLength, fields |-> fields]

\* the error of the validation that failed; "" when the header is valid
Validation(valid, error) == [valid |-> valid, error |-> error]

\* a _verifyHeader that checks the sizes before the magic string
verifyHeaderSizeFirst(headerBuffer) ==
  IF headerBuffer.length < FORMAT_VERSION_OFFSET + HEADER_MIN_LEN
  THEN Validation(FALSE, "smaller than the minimum required size")
  ELSE IF headerBuffer.length <
            FORMAT_VERSION_OFFSET + HEADER_MIN_LEN + headerBuffer.headerLength
  THEN Validation(FALSE, "Header is larger than the essential padding format")
  ELSE IF headerBuffer.magic # FORMAT_VERSION
  THEN Validation(FALSE, "Magic string mismatch")
  ELSE Validation(TRUE, "")

\* _verifyHeader (lines 85-114)
verifyHeader(headerBuffer) ==
  IF headerBuffer.magic # FORMAT_VERSION
  THEN Validation(FALSE, "Magic string mismatch")
  ELSE IF headerBuffer.length < FORMAT_VERSION_OFFSET + HEADER_MIN_LEN
  THEN Validation(FALSE, "smaller than the minimum required size")
  ELSE IF headerBuffer.length <
            FORMAT_VERSION_OFFSET + HEADER_MIN_LEN + headerBuffer.headerLength
  THEN Validation(FALSE, "Header is larger than the essential padding format")
  ELSE Validation(TRUE, "")

RECURSIVE extractFields(_, _)
\* extractFields (helper-functions.ts:6-25): the fields by name, a later field
\* of a name replacing an earlier one; undefined when a field has no '='
extractFields(fields, headerFields) ==
  IF fields = <<>> THEN [undefined |-> FALSE, fields |-> headerFields]
  ELSE IF ~Head(fields).equal THEN [undefined |-> TRUE, fields |-> <<>>]
  ELSE extractFields(Tail(fields),
                     SelectSeq(headerFields, LAMBDA x : x.name # Head(fields).name)
                       \o <<Head(fields)>>)

\* headerFields[name] is defined
hasField(headerFields, name) ==
  \E i \in 1..Len(headerFields) : headerFields[i].name = name

fieldValue(headerFields, name) ==
  headerFields[CHOOSE i \in 1..Len(headerFields) : headerFields[i].name = name].value

\* lines 125-129; reading a field that is not there throws a TypeError
headerInfo(headerFields) ==
  IF /\ hasField(headerFields, "index_pos")
     /\ hasField(headerFields, "conn_count")
     /\ hasField(headerFields, "chunk_count")
  THEN [error |-> "",
        indexPos |-> fieldValue(headerFields, "index_pos"),
        connCount |-> fieldValue(headerFields, "conn_count"),
        chunkCount |-> fieldValue(headerFields, "chunk_count")]
  ELSE [error |-> "TypeError"]

\* line 124 on what extractFields returned
parsedFields(r) ==
  IF r.undefined THEN [error |-> "Bag header field Missing equal '='"]
  ELSE headerInfo(r.fields)

\* _parseBagHeader (lines 116-130)
parseBagHeader(headerBuffer) == parsedFields(extractFields(headerBuffer.fields, <<>>))

\* line 79 on the validation
validated(validation, headerBuffer) ==
  IF ~validation.valid THEN [error |-> validation.error]
  ELSE parseBagHeader(headerBuffer)

\* the map of _readHeader$ (lines 76-81): the header info, or the error thrown
readHeader(headerBuffer) == validated(verifyHeader(headerBuffer), headerBuffer)

\* the strings the first 13 bytes of the header buffers offered decode to
HeaderMagics == {FORMAT_VERSION, "#ROSBAG V1.2\n"}

\* the fields of the bag header record of file f: index_pos, conn_count,
\* chunk_count and op, each with the length of its data
bagHeaderFields(f) ==
  << HeaderField("index_pos", 18, TRUE, Files[f].size),
     HeaderField("conn_count", 15, TRUE, Cardinality(Files[f].conns)),
     HeaderField("chunk_count", 16, TRUE, Len(Files[f].chunks)),
     HeaderField("op", 4, TRUE, 3) >>

\* the header fields of a bag recorded with no message: no connection, no chunk
emptyBagFields(f) ==
  << HeaderField("index_pos", 18, TRUE, HEADER_PADDING),
     HeaderField("conn_count", 15, TRUE, 0),
     HeaderField("chunk_count", 16, TRUE, 0),
     HeaderField("op", 4, TRUE, 3) >>

\* the field lists offered for file f: its own, its own with the last field
\* damaged (no '='), its own without chunk_count, those of an empty bag
HeaderFieldLists(f) ==
  { bagHeaderFields(f),
    SubSeq(bagHeaderFields(f), 1, 3) \o <<HeaderField("", 4, FALSE, 0)>>,
    SubSeq(bagHeaderFields(f), 1, 2) \o <<HeaderField("op", 4, TRUE, 3)>>,
    emptyBagFields(f) }

RECURSIVE fieldsLength(_)
\* the bytes the fields take: a 4-byte length and the data of each
fieldsLength(fields) ==
  IF fields = <<>> THEN 0 ELSE 4 + Head(fields).fieldLen + fieldsLength(Tail(fields))

\* the lengths of the header buffers offered: a file of 12 bytes, of 20
\* bytes, one that ends a byte before the end of its header, a full padding
HeaderLengths(fields) ==
  {12, 20, FORMAT_VERSION_OFFSET + HEADER_MIN_LEN + fieldsLength(fields) - 1,
   HEADER_PADDING}

\* the header buffers offered for file f; a buffer of fewer than 13 bytes
\* cannot hold the magic string
HeaderBuffers(f) ==
  {h \in UNION {{HeaderBuffer(m, n, fieldsLength(fs), fs) :
                   m \in HeaderMagics, n \in HeaderLengths(fs)} :
                  fs \in HeaderFieldLists(f)} :
     h.length < FORMAT_VERSION_OFFSET => h.magic # FORMAT_VERSION}

\* the header of file f as the recorder wrote it
bagHeader(f) ==
  HeaderBuffer(FORMAT_VERSION, HEADER_PADDING, fieldsLength(bagHeaderFields(f)),
               bagHeaderFields(f))

\* loadFile(file) of a file f whose first HEADER_PADDING bytes are h
loadHeaderFile(f, h) ==
  /\ loadFileState(f)
  /\ callArgs' = [fn |-> "readHeader", file |-> f, headerBuffer |-> h]
  /\ callResult' = NoCall

\* an error on bagMetadata$: the subscription of the constructor (lines 63-67
\* of bag-inspector.model.ts) is closed, with no error callback to run
metadataError ==
  /\ inspectorAlive' = FALSE
  /\ inspectorFile' = NoFile
  /\ onMessages' = <<>>
  /\ lastCall' = Other
  /\ UNCHANGED <<bagFile, connections, chunkCache, currentCacheBytes, msgSchemas,
                 bagMetadata, currentBagTime, isPlaying, options, clock, timers,
                 prefetches, seekAlive, destroyed>>

\* the map of _readHeader$ returned the header info r, or threw r.error
headerRead(r) ==
  /\ callResult' = [fn |-> "readHeader", info |-> r]
  /\ UNCHANGED callArgs
  /\ IF r.error # "" THEN metadataError ELSE UNCHANGED managerVars

\* reader.onload of _readHeader$ (lines 67, 76-81)
headerLoaded ==
  /\ inspectorFile # NoFile
  /\ callArgs.fn = "readHeader"
  /\ callResult = NoCall
  /\ headerRead(readHeader(callArgs.headerBuffer))

\* reader.onload of _extractFileMetadata$ (lines 143, 152-191): with no
\* connection connections[connCount - 1] is undefined and line 168 throws;
\* with no chunk chunksInfo[0] is undefined and line 186 throws; else the
\* metadata reaches the subscriber of the constructor
indexLoaded ==
  /\ inspectorFile # NoFile
  /\ callResult # NoCall
  /\ callResult.info.error = ""
  /\ IF callResult.info.connCount = 0 \/ callResult.info.chunkCount = 0
     THEN metadataError /\ UNCHANGED callVars
     ELSE metadataLoaded

InitHeader == Init

NextHeader ==
  \/ \E f \in FileIds : \E h \in HeaderBuffers(f) : loadHeaderFile(f, h)
  \/ headerLoaded
  \/ indexLoaded

SpecHeader == InitHeader /\ [][NextHeader]_vars

\* C22: header validation is fatal to the load.  When the first 13 bytes of
\* the header buffer are not the magic string, or the buffer is shorter than
\* 13 + 8 bytes, or 13 + 8 + header length exceeds its length, or a header
\* field has no '=', the error raised is that of the first of these checks
\* that fails, in this order; no metadata is published for the file
\* (_currentBagTime stays null, nothing is pending) and the metadata stream
\* has terminated.
C22_HeaderValidationFatal ==
  callResult # NoCall =>
    LET h == callArgs.headerBuffer
        badMagic == h.magic # "#ROSBAG V2.0\n"
        short == h.length < 13 + 8
        long == 13 + 8 + h.headerLength > h.length
        noEqual == \E i \in 1..Len(h.fields) : ~h.fields[i].equal
    IN  (badMagic \/ short \/ long \/ noEqual) =>
          /\ callResult.info.error =
               IF badMagic THEN "Magic string mismatch"
               ELSE IF short THEN "smaller than the minimum required size"
               ELSE IF long THEN "Header is larger than the essential padding format"
               ELSE "Bag header field Missing equal '='"
          /\ ~inspectorAlive
          /\ inspectorFile = NoFile
          /\ currentBagTime = <<>>
          /\ bagFile = callArgs.file

\* a buffer that fails the magic check and the size check was read: the
\* error is the magic string's, and the stream has terminated
C22_MagicCheckedFirst ==
  /\ callResult # NoCall
  /\ callArgs.headerBuffer.magic # "#ROSBAG V2.0\n"
  /\ callArgs.headerBuffer.length < 13 + 8
  /\ callResult.info.error = "Magic string mismatch"
  /\ ~inspectorAlive

\* C28: a load that failed (header validation error, index parse error) does
\* not prevent a later load: every file loaded whose header and index are
\* valid has its metadata read pending or has been published, with
\* _currentBagTime at its start time and its initial prefetch open.
C28_LoadAfterFailureRecovers ==
  (callArgs # NoCall /\ callArgs.headerBuffer = bagHeader(callArgs.file)) =>
    \/ inspectorFile = callArgs.file
    \/ /\ bagMetadata = callArgs.file
       /\ currentBagTime = <<metaStartTime(callArgs.file)>>
       /\ prefetches =
            addPipeline(EmptyBag,
                        prefetchChunks(callArgs.file, metaStartTime(callArgs.file),
                                       options.prefetch, <<>>))

\* C23: a chunk read that fails leaves the cache and its byte count as they
\* were, leaves _isPlaying and the clock of play() as they were, and leaves
\* the other reads of the same prefetch, in flight or buffered, pending, so
\* that they can still complete and be cached.
C23_ChunkFailureIsolated ==
  [][ \A p \in Pipelines : \A c \in ChunkIdxs :
        readFailed(p, c) =>
          /\ chunkCache' = chunkCache
          /\ currentCacheBytes' = currentCacheBytes
          /\ isPlaying' = isPlaying
          /\ clock' = clock
          /\ ((p.active \ {c}) \cup Range(p.queue)) \subseteq Reads(prefetches')
    ]_vars

(***************************************************************************)
(* Properties of the playback clock                                        *)
(***************************************************************************)
\* C24: with loop off and a positive playbackSpeed, the timer callback whose
\* new bag time is not before the end time of the metadata stops the
\* playback: _isPlaying becomes false, _currentBagTime becomes the start time
\* of the metadata, no batch is emitted and the timer subscription is closed;
\* and the player only starts playing again by a call of play().
C24_EndOfBagStops ==
  [][ /\ \A d \in TickDelaysMs :
           ( /\ tick(d)
             /\ ~options.loop
             /\ options.playbackSpeed > 0
             /\ ~isLessThan(addSecToTime(clock.anchor,
                                         (clock.elapsedMs + d) * options.playbackSpeed),
                            metaEndTime(bagMetadata)) ) =>
             /\ ~isPlaying'
             /\ currentBagTime' = <<metaStartTime(bagMetadata)>>
             /\ onMessages' = <<>>
             /\ clock' = NoClock
      /\ (~isPlaying /\ isPlaying') => play
    ]_vars

\* C25: whatever calls and callbacks came before, at most one subscription
\* to the tick timer is open, and one is open exactly when _isPlaying is
\* true; a play() called while playing, or while no metadata is loaded,
\* changes nothing: not _isPlaying, not _currentBagTime, not the anchor of
\* the clock, and it opens no timer.
C25_SingleTickTimer ==
  [][ /\ timers <= 1 /\ (timers = 1 <=> isPlaying)
      /\ timers' <= 1 /\ (timers' = 1 <=> isPlaying')
      /\ (play /\ (isPlaying \/ bagMetadata = NoFile)) =>
           UNCHANGED <<isPlaying, currentBagTime, clock, timers, options, bagMetadata,
                       prefetches, chunkCache, currentCacheBytes>>
    ]_vars

\* a seek called while playing closed the timer and play() opened one again:
\* one timer is open, anchored at the time of the seek
C25_SeekReopenedOneTimer ==
  /\ lastCall.name = "seek"
  /\ lastCall.wasPlaying
  /\ isPlaying
  /\ timers = 1
  /\ clock.anchor = lastCall.time[1]

\* C26: pause freezes the bag clock.  pause() leaves _currentBagTime, the
\* options, the metadata and the cache as they are and closes the timer; while
\* the player is paused no timer callback runs, and _currentBagTime changes
\* only by a seek, a loadFile, a destroyInstance or the arrival of metadata;
\* the play() that follows anchors the clock at the _currentBagTime it finds,
\* with no wall time elapsed, and leaves _currentBagTime at that value.
C26_PauseFreezesClock ==
  [][ /\ pause =>
           /\ UNCHANGED <<currentBagTime, options, bagMetadata, chunkCache,
                          currentCacheBytes>>
           /\ ~isPlaying'
           /\ timers' = 0
      /\ ~isPlaying => ~(\E d \in TickDelaysMs : tick(d))
      /\ (~isPlaying /\ ~isPlaying' /\ currentBagTime' # currentBagTime) =>
           \/ lastCall'.name \in {"seek", "loadFile", "destroyInstance"}
           \/ inspectorFile # NoFile /\ bagMetadata' = inspectorFile
      /\ (~isPlaying /\ ~isPlaying' /\ onMessages' # <<>>) => lastCall'.name = "seek"
      /\ (play /\ ~isPlaying /\ bagMetadata # NoFile /\ currentBagTime # <<>>) =>
           /\ isPlaying'
           /\ clock'.anchor = currentBagTime[1]
           /\ clock'.elapsedMs = 0
           /\ currentBagTime' = currentBagTime
    ]_vars

\* a playback that had advanced was paused and play() was called: the clock
\* is anchored at the bag time the timer published last, which is neither the
\* start time nor the time of a seek
C26_ResumedWherePaused ==
  /\ isPlaying
  /\ clock.elapsedMs = 0
  /\ currentBagTime = <<clock.anchor>>
  /\ clock.anchor # metaStartTime(clock.meta)
  /\ clock.anchor \notin SeekTimes

(***************************************************************************)
(* Playback of one bag under changes of the playback speed                 *)
(***************************************************************************)
\* the speeds offered to updateOptions({ playbackSpeed })
PlaybackSpeeds == {1, 2, 3}
SpeedUpdates == { [f \in {"playbackSpeed"} |-> s] : s \in PlaybackSpeeds }
\* wall-clock delays between timer callbacks, in ms
SpeedTickDelaysMs == {1000}

\* one bag is loaded, then played, paused and played again while the client
\* changes the speed
NextSpeed ==
  \/ \E f \in FileIds : bagFile = NoFile /\ loadFile(f)
  \/ metadataLoaded
  \/ play
  \/ pause
  \/ \E u \in SpeedUpdates : updateOptions(u)
  \/ \E d \in SpeedTickDelaysMs : tick(d)
  \/ \E p \in Pipelines, c \in ChunkIdxs : readLoaded(p, c)

SpecSpeed == Init /\ [][NextSpeed]_vars

\* C27: the bag clock is monotone.  A timer callback that publishes a bag time
\* (it neither rewinds for the loop nor stops at the end), in a playback with
\* no seek and no loadFile, never publishes a time before the one
\* _currentBagTime held, also when updateOptions changed playbackSpeed since
\* the callback before.
C27_ClockMonotone ==
  [][ ( /\ \E d \in SpeedTickDelaysMs : tick(d)
        /\ isPlaying'
        /\ clock'.anchor = clock.anchor
        /\ clock'.elapsedMs > clock.elapsedMs ) =>
        ~isLessThan(currentBagTime'[1], currentBagTime[1])
    ]_vars

(***************************************************************************)
(* Properties of eviction during playback                                  *)
(***************************************************************************)
\* C29: eviction respects the play head.  While playing, the onload of a chunk
\* read never evicts an entry whose chunk contains _currentBagTime in its time
\* range while an entry whose chunk starts later in bag time stays in the
\* cache.
C29_EvictionKeepsPlayHead ==
  [][ \A p \in Pipelines, c \in ChunkIdxs :
        (isPlaying /\ currentBagTime # <<>> /\ readLoaded(p, c)) =>
          LET ins == cacheSet(chunkCache, cacheEntry(p.meta, c, bagFile, connections))
              info(e) == chunksInfoOf(e.meta)[e.idx + 1]
          IN  \A i \in 1..Len(lastCall'.evicted) :
                ( /\ compareTime(info(ins[i]).startTime, currentBagTime[1]) <= 0
                  /\ compareTime(currentBagTime[1], info(ins[i]).endTime) <= 0 ) =>
                  \A k \in 1..Len(chunkCache') :
                     compareTime(info(chunkCache'[k]).startTime,
                                 info(ins[i]).startTime) <= 0
    ]_vars

====
